---------------------------- MODULE Spec2Model ----------------------------
(***************************************************************************)
(* Model of the wasm-graph-algorithms crate: cycle detection (DFS with a   *)
(* recursion-stack set), topological sort (Kahn), path finding (BFS) and   *)
(* DAG construction from relationships.                                    *)
(*                                                                         *)
(* Node identities are strings.  An Option<T> is modelled as a sequence:   *)
(* <<>> is None and <<x>> is Some(x).  An f64 weight is modelled by an     *)
(* integer (the sums the model forms are exact in f64 as well).            *)
(***************************************************************************)
EXTENDS Integers, Sequences, FiniteSets, TLC

VARIABLES
    graph,          \* the Graph argument: [nodes : Seq(String), edges : Seq(Edge)]
    pc,             \* position of the running entry point
    adjacency,      \* HashMap<String, Vec<..>>: a function whose DOMAIN is the key set
    visited,        \* cycle detection: HashSet visited
    rec_stack,      \* cycle detection: HashSet rec_stack
    path,           \* cycle detection: Vec path of the current root
    cycles,         \* cycle detection: Vec<Vec<String>> cycles
    frames,         \* cycle detection: call stack of dfs_cycle_detection, [node, i]
    rootIdx,        \* cycle detection: position of the outer loop in graph.nodes
    retval,         \* cycle detection: value being returned by dfs_cycle_detection
    in_degree,      \* topological sort: HashMap<String, usize>
    keysLeft,       \* topological sort: keys of in_degree the seeding loop has yet to yield
    queue,          \* topological sort: VecDeque queue
    sorted,         \* topological sort: Vec sorted
    cur,            \* topological sort: the node dequeued last
    idx,            \* topological sort: position in adjacency[cur]
    prev,           \* topological sort: result of the previous call on the same input (Option)
    from,           \* path finding: argument from
    to,             \* path finding: argument to
    relationships,  \* DAG construction: the relationship list
    result          \* the value returned by the entry point

vars == <<graph, pc, adjacency, visited, rec_stack, path, cycles, frames, rootIdx,
          retval, in_degree, keysLeft, queue, sorted, cur, idx, prev, from, to,
          relationships, result>>

cycleVars == <<visited, rec_stack, path, cycles, frames, rootIdx, retval>>
topoVars  == <<in_degree, keysLeft, queue, sorted, cur, idx, prev>>
pathVars  == <<from, to>>

----------------------------------------------------------------------------
(* Bounds of the model and the input universe *)

Ids == {"A", "B", "C"}

MaxEdges == 3

\* A node list may repeat an identity and may leave identities out; lists longer
\* than the identity universe only add further repetitions.
MaxNodes == Cardinality(Ids)

None == <<>>
Some(x) == <<x>>

SeqsUpTo(S, n) == UNION {[1..k -> S] : k \in 0..n}

Range(s) == {s[i] : i \in DOMAIN s}

\* Edges whose weight is absent: the cycle and ordering algorithms never read it.
PlainEdges == [from : Ids, to : Ids, weight : {None}]

PlainGraphs == [nodes : SeqsUpTo(Ids, MaxNodes), edges : SeqsUpTo(PlainEdges, MaxEdges)]

NoResult == [pending |-> TRUE]
EmptyMap == [k \in {} |-> <<>>]

----------------------------------------------------------------------------
(* Shared helpers *)

\* (mutation) pushes only under a key the map already holds, as get_mut(k) would
PushEntryDeclaredOnly(map, k, v) ==
    IF k \in DOMAIN map THEN [map EXCEPT ![k] = Append(@, v)] ELSE map

\* map.entry(k).or_insert_with(Vec::new).push(v)
PushEntry(map, k, v) ==
    [x \in DOMAIN map \cup {k} |->
        IF x = k THEN (IF k \in DOMAIN map THEN Append(map[k], v) ELSE <<v>>)
        ELSE map[x]]

\* (mutation) the loop over the neighbours stops one short
NeighborsButLast(map, k) ==
    IF k \in DOMAIN map /\ map[k] # <<>> THEN SubSeq(map[k], 1, Len(map[k]) - 1) ELSE <<>>

\* map.get(k) with the None case read as "no neighbours"
Neighbors(map, k) == IF k \in DOMAIN map THEN map[k] ELSE <<>>

\* path.iter().position(|x| x == n): 0 stands for None
Position(s, n) ==
    IF n \in Range(s) THEN CHOOSE i \in DOMAIN s : s[i] = n /\ \A j \in 1..(i-1) : s[j] # n
    ELSE 0

RECURSIVE PushEdges(_, _, _)
PushEdges(map, edges, i) ==
    IF i > Len(edges) THEN map
    ELSE PushEdges(PushEntry(map, edges[i].from, edges[i].to), edges, i + 1)

\* The adjacency list of cycle detection and of the topological sort
BuildAdjacency(g) == PushEdges([n \in Range(g.nodes) |-> <<>>], g.edges, 1)

----------------------------------------------------------------------------
(* Graph-theoretic reference notions, over the edge list alone *)

EdgePairs(g) == {<<g.edges[i].from, g.edges[i].to>> : i \in DOMAIN g.edges}

Succ(g, S) == {p[2] : p \in {q \in EdgePairs(g) : q[1] \in S}}

RECURSIVE Closure(_, _)
Closure(g, S) == LET T == S \cup Succ(g, S) IN IF T = S THEN S ELSE Closure(g, T)

\* nodes reachable from n by a walk of zero or more edges
ReachableFrom(g, n) == Closure(g, {n})

\* n lies on a directed cycle: n is reachable from one of its successors
OnCycle(g, n) == n \in Closure(g, Succ(g, {n}))

HasDirectedCycle(g) == \E n \in Ids : OnCycle(g, n)

----------------------------------------------------------------------------
(* detect_cycles_in_graph / dfs_cycle_detection *)

Top == frames[Len(frames)]
TopNeighbors == Neighbors(adjacency, Top.node)
Examining == pc = "dfs" /\ Top.i <= Len(TopNeighbors)
Neighbor == TopNeighbors[Top.i]

AdvanceTop == [frames EXCEPT ![Len(frames)].i = @ + 1]

\* entry of dfs_cycle_detection(n, ...)
DfsEnter(n) ==
    /\ visited' = visited \cup {n}
    /\ rec_stack' = rec_stack \cup {n}
    /\ path' = Append(path, n)
    /\ frames' = Append(frames, [node |-> n, i |-> 1])
    /\ pc' = "dfs"

DetectStart ==
    /\ pc = "detect"
    /\ adjacency' = BuildAdjacency(graph)
    /\ visited' = {}
    /\ rec_stack' = {}
    /\ cycles' = <<>>
    /\ rootIdx' = 1
    /\ pc' = "roots"
    /\ UNCHANGED <<graph, path, frames, retval, topoVars, pathVars, relationships, result>>

RootVisit ==
    /\ pc = "roots"
    /\ rootIdx <= Len(graph.nodes)
    /\ graph.nodes[rootIdx] \notin visited
    /\ path = <<>>
    /\ DfsEnter(graph.nodes[rootIdx])
    /\ UNCHANGED <<graph, adjacency, cycles, rootIdx, retval, topoVars, pathVars,
                   relationships, result>>

RootSkip ==
    /\ pc = "roots"
    /\ rootIdx <= Len(graph.nodes)
    /\ graph.nodes[rootIdx] \in visited
    /\ rootIdx' = rootIdx + 1
    /\ UNCHANGED <<graph, pc, adjacency, visited, rec_stack, path, cycles, frames, retval,
                   topoVars, pathVars, relationships, result>>

DfsRecurse ==
    /\ Examining
    /\ Neighbor \notin visited
    /\ DfsEnter(Neighbor)
    /\ UNCHANGED <<graph, adjacency, cycles, rootIdx, retval, topoVars, pathVars,
                   relationships, result>>

\* (mutation) records the whole path instead of its suffix
CycleWholePath(p, start) == p

\* the back-edge branch: the cycle is the suffix of path from the neighbour's position
CycleOf(p, start) == SubSeq(p, start, Len(p))

DfsBackEdge ==
    /\ Examining
    /\ Neighbor \in visited
    /\ Neighbor \in rec_stack
    /\ Position(path, Neighbor) # 0
    /\ cycles' = Append(cycles, CycleOf(path, Position(path, Neighbor)))
    /\ retval' = TRUE
    /\ pc' = "ret"
    /\ UNCHANGED <<graph, adjacency, visited, rec_stack, path, frames, rootIdx, topoVars,
                   pathVars, relationships, result>>

\* neither branch applies, or position() is None: the for loop goes on
DfsNextNeighbor ==
    /\ Examining
    /\ Neighbor \in visited
    /\ (Neighbor \in rec_stack => Position(path, Neighbor) = 0)
    /\ frames' = AdvanceTop
    /\ UNCHANGED <<graph, pc, adjacency, visited, rec_stack, path, cycles, rootIdx, retval,
                   topoVars, pathVars, relationships, result>>

DfsExhausted ==
    /\ pc = "dfs"
    /\ Top.i > Len(TopNeighbors)
    /\ rec_stack' = rec_stack \ {Top.node}
    /\ path' = SubSeq(path, 1, Len(path) - 1)
    /\ retval' = FALSE
    /\ pc' = "ret"
    /\ UNCHANGED <<graph, adjacency, visited, cycles, frames, rootIdx, topoVars, pathVars,
                   relationships, result>>

\* the recursive call returned true: the caller returns true at once
ReturnFound ==
    /\ pc = "ret"
    /\ Len(frames) > 1
    /\ retval = TRUE
    /\ frames' = SubSeq(frames, 1, Len(frames) - 1)
    /\ UNCHANGED <<graph, pc, adjacency, visited, rec_stack, path, cycles, rootIdx, retval,
                   topoVars, pathVars, relationships, result>>

\* the recursive call returned false: the caller's for loop goes on
ReturnNotFound ==
    /\ pc = "ret"
    /\ Len(frames) > 1
    /\ retval = FALSE
    /\ frames' = [SubSeq(frames, 1, Len(frames) - 1) EXCEPT ![Len(frames) - 1].i = @ + 1]
    /\ pc' = "dfs"
    /\ UNCHANGED <<graph, adjacency, visited, rec_stack, path, cycles, rootIdx, retval,
                   topoVars, pathVars, relationships, result>>

\* the root's call returned: its path is dropped, the outer loop goes on
ReturnToRoot ==
    /\ pc = "ret"
    /\ Len(frames) = 1
    /\ frames' = <<>>
    /\ path' = <<>>
    /\ rootIdx' = rootIdx + 1
    /\ pc' = "roots"
    /\ UNCHANGED <<graph, adjacency, visited, rec_stack, cycles, retval, topoVars, pathVars,
                   relationships, result>>

DetectFinish ==
    /\ pc = "roots"
    /\ rootIdx > Len(graph.nodes)
    /\ result' = [has_cycle |-> cycles # <<>>, cycles |-> cycles]
    /\ pc' = "done"
    /\ UNCHANGED <<graph, adjacency, cycleVars, topoVars, pathVars, relationships>>

InitCycle ==
    /\ graph \in PlainGraphs
    /\ pc = "detect"
    /\ adjacency = EmptyMap
    /\ visited = {}
    /\ rec_stack = {}
    /\ path = <<>>
    /\ cycles = <<>>
    /\ frames = <<>>
    /\ rootIdx = 1
    /\ retval = FALSE
    /\ in_degree = EmptyMap
    /\ keysLeft = {}
    /\ queue = <<>>
    /\ sorted = <<>>
    /\ cur = ""
    /\ idx = 1
    /\ prev = None
    /\ from = ""
    /\ to = ""
    /\ relationships = <<>>
    /\ result = NoResult

NextCycle ==
    \/ DetectStart
    \/ RootVisit
    \/ RootSkip
    \/ DfsRecurse
    \/ DfsBackEdge
    \/ DfsNextNeighbor
    \/ DfsExhausted
    \/ ReturnFound
    \/ ReturnNotFound
    \/ ReturnToRoot
    \/ DetectFinish

SpecCycle == InitCycle /\ [][NextCycle]_vars

----------------------------------------------------------------------------
(* compute_topological_sort *)

\* (mutation) records that k has an incoming edge instead of counting the edges
BumpEntryOnce(map, k) == [x \in DOMAIN map \cup {k} |-> IF x = k THEN 1 ELSE map[x]]

\* *in_degree.entry(k).or_insert(0) += 1
BumpEntry(map, k) ==
    [x \in DOMAIN map \cup {k} |->
        IF x = k THEN (IF k \in DOMAIN map THEN map[k] + 1 ELSE 1) ELSE map[x]]

RECURSIVE CountEdges(_, _, _)
CountEdges(map, edges, i) ==
    IF i > Len(edges) THEN map
    ELSE CountEdges(BumpEntry(map, edges[i].to), edges, i + 1)

RECURSIVE CountSources(_, _, _)
CountSources(map, edges, i) ==
    IF i > Len(edges) THEN map
    ELSE CountSources(BumpEntry(map, edges[i].from), edges, i + 1)

\* (mutation) counts an edge at its source instead of its target
BuildOutDegree(g) == CountSources([n \in Range(g.nodes) |-> 0], g.edges, 1)

BuildInDegree(g) == CountEdges([n \in Range(g.nodes) |-> 0], g.edges, 1)

\* (mutation) the seeding loop stops at the first node it pushes
SeedPushFirstOnly(q, k, degree) == IF degree = 0 /\ q = <<>> THEN Append(q, k) ELSE q

\* the seeding loop's body: if *degree == 0 { queue.push_back(node) }
SeedPush(q, k, degree) == IF degree = 0 THEN Append(q, k) ELSE q

\* in_degree.entry(k).or_insert(0)
DegreeEntry(map, k) == IF k \in DOMAIN map THEN map[k] ELSE 0

SetEntry(map, k, v) == [x \in DOMAIN map \cup {k} |-> IF x = k THEN v ELSE map[x]]

\* (mutation) reports a cycle only when nothing was sorted
HasCycleEmptyOnly(s, nodes) == Len(s) = 0 /\ Len(nodes) > 0

\* let has_cycle = sorted.len() < graph.nodes.len()
HasCycleFlag(s, nodes) == Len(s) < Len(nodes)

TopoStart ==
    /\ pc = "topo"
    /\ adjacency' = BuildAdjacency(graph)
    /\ in_degree' = BuildInDegree(graph)
    /\ keysLeft' = DOMAIN BuildInDegree(graph)
    /\ queue' = <<>>
    /\ sorted' = <<>>
    /\ pc' = "seed"
    /\ UNCHANGED <<graph, cycleVars, cur, idx, prev, pathVars, relationships, result>>

\* one iteration of `for (node, degree) in &in_degree`: the map yields its keys in
\* an order the program does not control
Seed ==
    /\ pc = "seed"
    /\ \E k \in keysLeft :
          /\ queue' = SeedPush(queue, k, in_degree[k])
          /\ keysLeft' = keysLeft \ {k}
    /\ UNCHANGED <<graph, pc, adjacency, cycleVars, in_degree, sorted, cur, idx, prev,
                   pathVars, relationships, result>>

SeedDone ==
    /\ pc = "seed"
    /\ keysLeft = {}
    /\ pc' = "loop"
    /\ UNCHANGED <<graph, adjacency, cycleVars, topoVars, pathVars, relationships, result>>

Dequeue ==
    /\ pc = "loop"
    /\ queue # <<>>
    /\ cur' = Head(queue)
    /\ queue' = Tail(queue)
    /\ sorted' = Append(sorted, Head(queue))
    /\ idx' = 1
    /\ pc' = "relax"
    /\ UNCHANGED <<graph, adjacency, cycleVars, in_degree, keysLeft, prev, pathVars,
                   relationships, result>>

RelaxNeighbor == Neighbors(adjacency, cur)[idx]
Relaxing == pc = "relax" /\ idx <= Len(Neighbors(adjacency, cur))

\* one iteration of `for neighbor in neighbors`.  `*degree -= 1` on a usize that is 0
\* is an arithmetic overflow: the call panics (with overflow checks off the counter
\* wraps to usize::MAX instead); the model stops at the first such subtraction.
Relax ==
    /\ Relaxing
    /\ LET degree == DegreeEntry(in_degree, RelaxNeighbor) IN
          IF degree = 0
          THEN /\ pc' = "panic"
               /\ UNCHANGED <<in_degree, queue, idx>>
          ELSE /\ in_degree' = SetEntry(in_degree, RelaxNeighbor, degree - 1)
               /\ queue' = IF degree - 1 = 0 THEN Append(queue, RelaxNeighbor) ELSE queue
               /\ idx' = idx + 1
               /\ pc' = pc
    /\ UNCHANGED <<graph, adjacency, cycleVars, keysLeft, sorted, cur, prev, pathVars,
                   relationships, result>>

RelaxDone ==
    /\ pc = "relax"
    /\ idx > Len(Neighbors(adjacency, cur))
    /\ pc' = "loop"
    /\ UNCHANGED <<graph, adjacency, cycleVars, topoVars, pathVars, relationships, result>>

TopoFinish ==
    /\ pc = "loop"
    /\ queue = <<>>
    /\ result' = [sorted |-> sorted, has_cycle |-> HasCycleFlag(sorted, graph.nodes)]
    /\ pc' = "done"
    /\ UNCHANGED <<graph, adjacency, cycleVars, topoVars, pathVars, relationships>>

\* the caller runs the entry point once more on the same input
TopoAgain ==
    /\ pc = "done"
    /\ prev = None
    /\ prev' = Some(result)
    /\ result' = NoResult
    /\ pc' = "topo"
    /\ UNCHANGED <<graph, adjacency, cycleVars, in_degree, keysLeft, queue, sorted, cur, idx,
                   pathVars, relationships>>

InitTopo ==
    /\ graph \in PlainGraphs
    /\ pc = "topo"
    /\ adjacency = EmptyMap
    /\ visited = {}
    /\ rec_stack = {}
    /\ path = <<>>
    /\ cycles = <<>>
    /\ frames = <<>>
    /\ rootIdx = 1
    /\ retval = FALSE
    /\ in_degree = EmptyMap
    /\ keysLeft = {}
    /\ queue = <<>>
    /\ sorted = <<>>
    /\ cur = ""
    /\ idx = 1
    /\ prev = None
    /\ from = ""
    /\ to = ""
    /\ relationships = <<>>
    /\ result = NoResult

NextTopo ==
    \/ TopoStart
    \/ Seed
    \/ SeedDone
    \/ Dequeue
    \/ Relax
    \/ RelaxDone
    \/ TopoFinish
    \/ TopoAgain

SpecTopo == InitTopo /\ [][NextTopo]_vars

----------------------------------------------------------------------------
(* find_path_between_nodes *)

\* edge.weight.unwrap_or(1.0)
UnwrapOr(opt, default) == IF opt = None THEN default ELSE opt[1]

RECURSIVE PushWeightedEdges(_, _, _)
PushWeightedEdges(map, edges, i) ==
    IF i > Len(edges) THEN map
    ELSE PushWeightedEdges(
             PushEntry(map, edges[i].from, <<edges[i].to, UnwrapOr(edges[i].weight, 1)>>),
             edges, i + 1)

RECURSIVE PushReversedEdges(_, _, _)
PushReversedEdges(map, edges, i) ==
    IF i > Len(edges) THEN map
    ELSE PushReversedEdges(
             PushEntry(map, edges[i].to, <<edges[i].from, UnwrapOr(edges[i].weight, 1)>>),
             edges, i + 1)

\* (mutation) files every edge under its target
BuildReversedAdjacency(g) == PushReversedEdges([n \in Range(g.nodes) |-> <<>>], g.edges, 1)

BuildWeightedAdjacency(g) == PushWeightedEdges([n \in Range(g.nodes) |-> <<>>], g.edges, 1)

\* queue.push_back(item)
PushBack(q, item) == Append(q, item)

\* the loop over the neighbours of the dequeued entry h, from the i-th on; st is
\* [queue, visited]
RECURSIVE Expand(_, _, _, _)
Expand(nbrs, i, h, st) ==
    IF i > Len(nbrs) THEN st
    ELSE LET neighbor == nbrs[i][1]
             weight == nbrs[i][2]
         IN  IF neighbor \notin st.visited
             THEN Expand(nbrs, i + 1, h,
                         [queue |-> PushBack(st.queue, [node |-> neighbor,
                                                        path |-> Append(h.path, neighbor),
                                                        distance |-> h.distance + weight]),
                          visited |-> st.visited \cup {neighbor}])
             ELSE Expand(nbrs, i + 1, h, st)

\* the while loop over the queue
RECURSIVE Bfs(_, _, _)
Bfs(adj, target, st) ==
    IF st.queue = <<>>
    THEN [path |-> <<>>, exists |-> FALSE, distance |-> None]
    ELSE LET h == Head(st.queue) IN
         IF h.node = target
         THEN [path |-> h.path, exists |-> TRUE, distance |-> Some(h.distance)]
         ELSE Bfs(adj, target,
                  Expand(Neighbors(adj, h.node), 1, h,
                         [queue |-> Tail(st.queue), visited |-> st.visited]))

find_path_between_nodes(g, src, dst) ==
    IF src = dst
    THEN [path |-> <<src>>, exists |-> TRUE, distance |-> Some(0)]
    ELSE Bfs(BuildWeightedAdjacency(g), dst,
             [queue |-> <<[node |-> src, path |-> <<src>>, distance |-> 0]>>,
              visited |-> {src}])

FindPath ==
    /\ pc = "find"
    /\ result' = find_path_between_nodes(graph, from, to)
    /\ pc' = "done"
    /\ UNCHANGED <<graph, adjacency, cycleVars, topoVars, pathVars, relationships>>

\* an absent weight, or one heavier than two default hops
Weights == {None, Some(3)}

WeightedEdges == [from : Ids, to : Ids, weight : Weights]

\* find_path reads the node list only to pre-insert empty adjacency entries: the
\* inputs declare no identity, a single one, or all of them.
PathNodeLists == {<<>>, <<"A">>, <<"B">>, <<"C">>, <<"A", "B", "C">>}

PathGraphs == [nodes : PathNodeLists, edges : SeqsUpTo(WeightedEdges, MaxEdges)]

InitPath ==
    /\ graph \in PathGraphs
    /\ from \in Ids
    /\ to \in Ids
    /\ pc = "find"
    /\ adjacency = EmptyMap
    /\ visited = {}
    /\ rec_stack = {}
    /\ path = <<>>
    /\ cycles = <<>>
    /\ frames = <<>>
    /\ rootIdx = 1
    /\ retval = FALSE
    /\ in_degree = EmptyMap
    /\ keysLeft = {}
    /\ queue = <<>>
    /\ sorted = <<>>
    /\ cur = ""
    /\ idx = 1
    /\ prev = None
    /\ relationships = <<>>
    /\ result = NoResult

NextPath == FindPath

SpecPath == InitPath /\ [][NextPath]_vars

----------------------------------------------------------------------------
(* build_dag_from_relationships *)

MaxRelationships == 3

Confidences == {None, Some(8)}

Relationship == [from : Ids, to : Ids, confidence : Confidences]

\* (mutation) forgets nodes.insert(rel.to)
RECURSIVE InsertSources(_, _, _)
InsertSources(nodes, rels, i) ==
    IF i > Len(rels) THEN nodes
    ELSE InsertSources(nodes \cup {rels[i].from}, rels, i + 1)

\* the HashSet of node identities after the loop over relationships[i..]
RECURSIVE InsertEndpoints(_, _, _)
InsertEndpoints(nodes, rels, i) ==
    IF i > Len(rels) THEN nodes
    ELSE InsertEndpoints((nodes \cup {rels[i].from}) \cup {rels[i].to}, rels, i + 1)

\* the Vec of edges after the loop over relationships[i..]
RECURSIVE PushRelationshipEdges(_, _, _)
PushRelationshipEdges(edges, rels, i) ==
    IF i > Len(rels) THEN edges
    ELSE PushRelationshipEdges(
             Append(edges, [from |-> rels[i].from, to |-> rels[i].to,
                            weight |-> rels[i].confidence]),
             rels, i + 1)

\* the orders in which a HashSet may yield its elements
IterationOrders(S) == {s \in [1..Cardinality(S) -> S] : Range(s) = S}

\* nodes.into_iter().collect() yields the set in an order the program does not control
BuildDag ==
    /\ pc = "build"
    /\ \E order \in IterationOrders(InsertEndpoints({}, relationships, 1)) :
          result' = [nodes |-> order,
                     edges |-> PushRelationshipEdges(<<>>, relationships, 1)]
    /\ pc' = "done"
    /\ UNCHANGED <<graph, adjacency, cycleVars, topoVars, pathVars, relationships>>

InitDag ==
    /\ relationships \in SeqsUpTo(Relationship, MaxRelationships)
    /\ pc = "build"
    /\ graph = [nodes |-> <<>>, edges |-> <<>>]
    /\ adjacency = EmptyMap
    /\ visited = {}
    /\ rec_stack = {}
    /\ path = <<>>
    /\ cycles = <<>>
    /\ frames = <<>>
    /\ rootIdx = 1
    /\ retval = FALSE
    /\ in_degree = EmptyMap
    /\ keysLeft = {}
    /\ queue = <<>>
    /\ sorted = <<>>
    /\ cur = ""
    /\ idx = 1
    /\ prev = None
    /\ from = ""
    /\ to = ""
    /\ result = NoResult

NextDag == BuildDag

SpecDag == InitDag /\ [][NextDag]_vars

----------------------------------------------------------------------------
(* Claims about detect_cycles_in_graph *)

Declared(g) == Range(g.nodes)

\* some directed cycle can be reached from a node of the node list
HasCycleReachableFromDeclared(g) ==
    \E d \in Declared(g) : \E n \in ReachableFrom(g, d) : OnCycle(g, n)

\* C1 as stated: for every input graph, edges with undeclared endpoints included,
\* hasCycle is true exactly when the edge list contains a directed cycle.
C1_Original ==
    pc = "done" => (result.has_cycle <=> HasDirectedCycle(graph))

\* C1 amended: hasCycle is true exactly when a directed cycle is reachable from a
\* node of the node list (every cycle is, when all edge endpoints are declared).
C1_HasCycleIffReachableCycle ==
    pc = "done" => (result.has_cycle <=> HasCycleReachableFromDeclared(graph))

\* a cycle through an undeclared node is found from a declared root
C1_Witness ==
    /\ pc = "done"
    /\ result.has_cycle
    /\ \E n \in Ids \ Declared(graph) : OnCycle(graph, n)
    /\ \E n \in Declared(graph) : ~OnCycle(graph, n)

IsClosedWalk(g, c) ==
    /\ Len(c) > 0
    /\ \A i, j \in DOMAIN c : i # j => c[i] # c[j]
    /\ \A i \in 1..(Len(c) - 1) : <<c[i], c[i + 1]>> \in EdgePairs(g)
    /\ <<c[Len(c)], c[1]>> \in EdgePairs(g)

\* C8: every recorded cycle is non-empty, has pairwise distinct nodes, follows an
\* edge of the graph from each element to the next and from the last to the first.
C8_CyclesAreGenuine ==
    \A k \in DOMAIN cycles : IsClosedWalk(graph, cycles[k])

\* two roots each recorded a cycle, one of them entered from outside the cycle
C8_Witness ==
    /\ pc = "done"
    /\ Len(result.cycles) >= 2
    /\ \E k \in DOMAIN result.cycles :
          /\ Len(result.cycles[k]) >= 2
          /\ result.cycles[k][1] # graph.nodes[1]

\* C9 as stated: at every point of the call, across all roots, rec_stack holds
\* exactly the nodes of the current path, and a neighbour examined while visited
\* and on rec_stack occurs in the current path.
C9_Original ==
    pc \in {"dfs", "ret"} =>
        /\ rec_stack = Range(path)
        /\ (Examining /\ Neighbor \in visited /\ Neighbor \in rec_stack
               => Position(path, Neighbor) # 0)

----------------------------------------------------------------------------
(* Claims about compute_topological_sort *)

Count(s, n) == Cardinality({i \in DOMAIN s : s[i] = n})

\* s holds every entry of the node list exactly once and nothing else
IsPermutation(s, nodes) ==
    /\ Len(s) = Len(nodes)
    /\ \A n \in Ids : Count(s, n) = Count(nodes, n)

\* for every edge (u -> v), u occurs in s at a strictly smaller position than v
RespectsEdges(s, g) ==
    \A p \in EdgePairs(g) :
        /\ Position(s, p[1]) # 0
        /\ Position(s, p[2]) # 0
        /\ Position(s, p[1]) < Position(s, p[2])

Endpoints(g) == {p[1] : p \in EdgePairs(g)} \cup {p[2] : p \in EdgePairs(g)}

NoDuplicateNodes(g) == \A i, j \in DOMAIN g.nodes : i # j => g.nodes[i] # g.nodes[j]
EndpointsDeclared(g) == Endpoints(g) \subseteq Declared(g)

\* C2 as stated: for every acyclic input graph, hasCycle is false and sorted is a
\* permutation of the node list that puts u before v for every edge (u -> v).
C2_Original ==
    (pc = "done" /\ ~HasDirectedCycle(graph)) =>
        /\ ~result.has_cycle
        /\ IsPermutation(result.sorted, graph.nodes)
        /\ RespectsEdges(result.sorted, graph)

\* C2 amended: the same, for acyclic graphs whose node list names no identity twice
\* and names both endpoints of every edge.
C2_TopologicalValidity ==
    (pc = "done" /\ ~HasDirectedCycle(graph)
        /\ NoDuplicateNodes(graph) /\ EndpointsDeclared(graph)) =>
        /\ ~result.has_cycle
        /\ IsPermutation(result.sorted, graph.nodes)
        /\ RespectsEdges(result.sorted, graph)

\* an acyclic graph on three declared nodes, ordered against the node list's order
C2_Witness ==
    /\ pc = "done"
    /\ ~HasDirectedCycle(graph)
    /\ NoDuplicateNodes(graph) /\ EndpointsDeclared(graph)
    /\ Len(graph.nodes) = 3
    /\ Cardinality(EdgePairs(graph)) >= 2
    /\ ~result.has_cycle
    /\ result.sorted # graph.nodes

\* C3 as stated: for every input graph that contains a directed cycle, hasCycle is
\* true and sorted is strictly shorter than the node list.
C3_Original ==
    (pc = "done" /\ HasDirectedCycle(graph)) =>
        /\ result.has_cycle
        /\ Len(result.sorted) < Len(graph.nodes)

\* C3 amended: the same, for cyclic graphs whose node list names both endpoints of
\* every edge.
C3_CycleIsReported ==
    (pc = "done" /\ HasDirectedCycle(graph) /\ EndpointsDeclared(graph)) =>
        /\ result.has_cycle
        /\ Len(result.sorted) < Len(graph.nodes)

\* a cycle next to a node that does get sorted
C3_Witness ==
    /\ pc = "done"
    /\ HasDirectedCycle(graph)
    /\ EndpointsDeclared(graph)
    /\ result.has_cycle
    /\ result.sorted # <<>>

\* C7: a second run on the same input, whatever order the in-degree map yields its
\* keys in, returns the hasCycle of the first run.
C7_HasCycleIsDeterministic ==
    (pc = "done" /\ prev # None) => result.has_cycle = prev[1].has_cycle

\* two runs that seeded the queue in different orders and sorted differently
C7_Witness ==
    /\ pc = "done"
    /\ prev # None
    /\ result.sorted # prev[1].sorted
    /\ result.sorted[1] # prev[1].sorted[1]
    /\ result.has_cycle

\* C10: the in-degree counter about to be decremented is never zero, and the call
\* never aborts on the subtraction.
C10_NoUnderflow ==
    /\ pc # "panic"
    /\ (Relaxing => DegreeEntry(in_degree, RelaxNeighbor) > 0)

\* a counter decremented twice for a duplicated edge, the run then returning
C10_Witness ==
    /\ pc = "done"
    /\ \E i, j \in DOMAIN graph.edges : i # j /\ graph.edges[i] = graph.edges[j]
                                          /\ graph.edges[i].to \in Range(result.sorted)
    /\ \E i \in DOMAIN graph.edges : graph.edges[i].to \notin Declared(graph)

----------------------------------------------------------------------------
(* Claims about find_path_between_nodes *)

\* the least number of edges of a walk from a node of S to dst, counted from k;
\* defined when dst is reachable from S
RECURSIVE HopsFrom(_, _, _, _)
HopsFrom(g, S, dst, k) ==
    IF dst \in S THEN k ELSE HopsFrom(g, S \cup Succ(g, S), dst, k + 1)

MinHops(g, src, dst) == HopsFrom(g, {src}, dst, 0)

IsWalk(g, p) == \A i \in 1..(Len(p) - 1) : <<p[i], p[i + 1]>> \in EdgePairs(g)

\* C4: for source # target with target reachable, exists is true and path is a walk
\* of the graph from source to target with the least possible number of edges,
\* whatever the weights are.
C4_HopShortestPath ==
    (pc = "done" /\ from # to /\ to \in ReachableFrom(graph, from)) =>
        /\ result.exists
        /\ result.path # <<>>
        /\ result.path[1] = from
        /\ result.path[Len(result.path)] = to
        /\ IsWalk(graph, result.path)
        /\ Len(result.path) - 1 = MinHops(graph, from, to)

HasEdge(g, u, v, w) ==
    \E i \in DOMAIN g.edges : g.edges[i] = [from |-> u, to |-> v, weight |-> w]

\* the direct heavy edge is returned although a lighter walk of two edges exists
C4_Witness ==
    /\ pc = "done"
    /\ from # to
    /\ result.exists
    /\ Len(result.path) = 2
    /\ result.distance = Some(3)
    /\ \E m \in Ids \ {from, to} : HasEdge(graph, from, m, None) /\ HasEdge(graph, m, to, None)

\* C5: exists is true exactly when target is reachable from source by a walk of zero
\* or more edges; source = target gives path = [source], exists, distance 0; an
\* unreachable target gives path = [], not exists, no distance.
C5_ExistsIffReachable ==
    pc = "done" =>
        /\ result.exists <=> to \in ReachableFrom(graph, from)
        /\ from = to =>
              result = [path |-> <<from>>, exists |-> TRUE, distance |-> Some(0)]
        /\ to \notin ReachableFrom(graph, from) =>
              result = [path |-> <<>>, exists |-> FALSE, distance |-> None]

\* the search ran over several nodes and the queue emptied without the target
C5_Witness ==
    /\ pc = "done"
    /\ ~result.exists
    /\ result.distance = None
    /\ Cardinality(ReachableFrom(graph, from)) >= 2
    /\ to \in Endpoints(graph)

----------------------------------------------------------------------------
(* Claims about build_dag_from_relationships *)

RelEndpoints(rels) == {rels[i].from : i \in DOMAIN rels} \cup {rels[i].to : i \in DOMAIN rels}

\* C6: the node list holds each distinct from/to identity exactly once and nothing
\* else; the i-th edge is the i-th relationship (from, to, weight = confidence),
\* duplicates kept.
C6_DagConstruction ==
    pc = "done" =>
        /\ \A n \in Ids : Count(result.nodes, n) = (IF n \in RelEndpoints(relationships) THEN 1 ELSE 0)
        /\ Len(result.edges) = Len(relationships)
        /\ \A i \in DOMAIN relationships :
              /\ result.edges[i].from = relationships[i].from
              /\ result.edges[i].to = relationships[i].to
              /\ result.edges[i].weight = relationships[i].confidence

\* a repeated relationship kept as two edges, three nodes collected
C6_Witness ==
    /\ pc = "done"
    /\ \E i, j \in DOMAIN relationships : i < j /\ relationships[i] = relationships[j]
    /\ Len(result.edges) = 3
    /\ Len(result.nodes) = 3
    /\ result.nodes[1] # relationships[1].from

=============================================================================
